---------------------------- MODULE Spec2Model ----------------------------
(***************************************************************************)
(* Model of baely/ibbitot (src/main.go), the "is Bailey in the office"     *)
(* service.  main.go holds four historical variants of the same program:   *)
(*   lines    1- 273  Kafka listener, in-memory cache, pre-rendered page   *)
(*   lines  275- 507  webhook + Firestore, 12-hour rolling freshness       *)
(*   lines  509- 842  webhook + Firestore, day-boundary freshness,         *)
(*                    office-tracker GET/PUT                               *)
(*   lines  844-1181  Kafka listener + Slack notification + daily refresh  *)
(*                                                                         *)
(* Time is counted in minutes.  Instant 0 is Monday 2024-01-01 00:00 UTC;  *)
(* Go's zero time.Time (0001-01-01 00:00 UTC, also a Monday) lies          *)
(* 738885 days before it.                                                  *)
(***************************************************************************)
EXTENDS Integers, Sequences, FiniteSets, TLC

VARIABLES
    now,                \* wall clock (time.Now), minutes
    started,            \* main() has run its start-up sequence
    crashed,            \* the process died of an unrecovered panic
    cachedTransaction,  \* var cachedTransaction model.TransactionResource
    indexPage,          \* var indexPage []byte
    latestStatus,       \* var latestStatus = office.State(-1)
    nextMidnight,       \* the instant runDailyTicker is sleeping towards
    last,               \* the last operation executed, with its input and outcome
    document,           \* the Firestore document baileypresent/transaction
    latestTransaction,  \* var latestTransaction of the rolling-window variant
    hpc,                \* per webhook request in flight: where its handler stands
    hprev,              \* per webhook request in flight: its local latestTransaction
    officeState,        \* the day's state held by the office-status service
    lpc,                \* transactionListener: where its store/refreshPage stands
    lpend,              \* transactionListener: the transaction being assigned
    lb,                 \* transactionListener: b, the page refreshPage built
    lold,               \* transactionListener: old, as read by replacePage
    dpc,                \* dailyPageRefresher: where its refreshPage stands
    db,                 \* dailyPageRefresher: b, the page refreshPage built
    dold,               \* dailyPageRefresher: old, as read by replacePage
    slackLast,          \* the payload of the latest fireSlack call
    lchanged,           \* transactionListener: its write changed indexPage
    dchanged,           \* dailyPageRefresher: its write changed indexPage
    slackIdle,          \* some fireSlack call followed a write that changed nothing
    builtAt             \* clock and status read by the latest page build

\* Locals of the two goroutines that run refreshPage, with the record of the
\* Slack calls, when their statements are interleaved.
raceVars ==
    <<lpc, lpend, lb, lold, lchanged, dpc, db, dold, dchanged, slackLast, slackIdle,
      builtAt>>

\* State of the Kafka variants.
kafkaVars ==
    <<started, crashed, cachedTransaction, indexPage, latestStatus, nextMidnight, raceVars>>

\* State of the webhook + Firestore variants.
firestoreVars == <<document, latestTransaction, hpc, hprev, officeState>>

\* Webhook requests handled concurrently (net/http serves each request in its
\* own goroutine).
Handlers == {1, 2}

vars == <<now, last, kafkaVars, firestoreVars>>

---------------------------------------------------------------------------
(* Bounds of the model *)

\* Days of wall-clock time modelled, counted from a Friday.
MaxDay == 1

---------------------------------------------------------------------------
(* Time *)

MinutesPerDay == 24 * 60

\* loc = time.LoadLocation("Australia/Melbourne"), as the fixed offset UTC+10.
MelbourneOffset == 600

\* time.Time{} : the CreatedAt of a zero-value TransactionResource.
ZeroTime == 0 - (738885 * MinutesPerDay)

\* The instant of local (Melbourne) time minute m of day d; day 0 is Friday
\* 2024-01-05 (4 days after the Monday of instant 0).
LocalInstant(d, m) == (4 + d) * MinutesPerDay + m - MelbourneOffset

\* 12 * time.Hour
TwelveHours == 12 * 60

\* t.After(u)
After(t, u) == t > u

\* t.Weekday() of a time carrying UTC offset off: Sunday = 0 ... Saturday = 6.
Weekday(t, off) == (((t + off) \div MinutesPerDay) + 1) % 7

\* t.Hour() of a time carrying UTC offset off.
Hour(t, off) == ((t + off) % MinutesPerDay) \div 60

\* time.Date(now.Year(), now.Month(), now.Day(), 0, 0, 0, 0, loc) for now = t.
MidnightOf(t) ==
    ((t + MelbourneOffset) \div MinutesPerDay) * MinutesPerDay - MelbourneOffset

\* t.In(loc).Format(time.Kitchen) : "3:04PM" as <<hour12, minute, AM/PM>>.
Kitchen(t) ==
    LET m == (t + MelbourneOffset) % MinutesPerDay
        h == m \div 60
    IN  <<IF h % 12 = 0 THEN 12 ELSE h % 12, m % 60, IF h < 12 THEN "AM" ELSE "PM">>

---------------------------------------------------------------------------
(* Transactions *)

Absent == "absent"   \* Relationships.Category.Data == nil

ZeroTx ==
    [amount |-> 0, createdAt |-> ZeroTime, offset |-> 0, description |-> "",
     foreign |-> FALSE, category |-> Absent]

Days == 0 .. MaxDay

\* Instants at which the modelled transactions are created: Friday 08:30,
\* Friday 23:00 and Saturday 08:30 local time.
TxTimes == {LocalInstant(0, 510), LocalInstant(0, 1380), LocalInstant(1, 510)}

\* UTC offsets a transaction timestamp is written with: +10:00 and Z.
TxOffsets == {MelbourneOffset, 0}

\* A transaction passing every predicate that does not read the timestamp.
Fixture ==
    [amount |-> -400, createdAt |-> ZeroTime, offset |-> 0, description |-> "cafe",
     foreign |-> FALSE, category |-> "restaurants-and-cafes"]

\* The fixture with one attribute varied at a time: the amount around both
\* bounds, the foreign flag, the category (absent, or another one).
Variants ==
    {[Fixture EXCEPT !.amount = a] : a \in {-701, -700, -400, -399}}
      \cup {[Fixture EXCEPT !.foreign = TRUE]}
      \cup {[Fixture EXCEPT !.category = c] : c \in {Absent, "groceries"}}

Transactions ==
    {[v EXCEPT !.createdAt = t, !.offset = o] :
        v \in Variants, t \in TxTimes, o \in TxOffsets}

\* Clock readings: 00:00, 01:00 and 09:00 local time of each day.
Clock == {LocalInstant(d, m) : d \in Days, m \in {0, 60, 540}}

---------------------------------------------------------------------------
(* The classifier: deciders and check *)

\* Mutant: the bounds taken exclusive.
amountBetweenExclusive(tx, minBaseUnits, maxBaseUnits) ==
    tx.amount > minBaseUnits /\ tx.amount < maxBaseUnits

\* amountBetween(minBaseUnits, maxBaseUnits)
amountBetween(tx, minBaseUnits, maxBaseUnits) ==
    tx.amount >= minBaseUnits /\ tx.amount <= maxBaseUnits

\* timeBetween(minHour, maxHour): the hour of the timestamp as written.
timeBetween(tx, minHour, maxHour) ==
    Hour(tx.createdAt, tx.offset) >= minHour /\ Hour(tx.createdAt, tx.offset) <= maxHour

\* weekday(): CreatedAt.Weekday() is taken in the timestamp's own offset.
weekday(tx) ==
    LET day == Weekday(tx.createdAt, tx.offset) IN day >= 1 /\ day <= 5

\* Mutant: the foreign amount is not looked at.
notForeignIgnored(tx) == TRUE

\* notForeign(): ForeignAmount == nil
notForeign(tx) == ~tx.foreign

\* category(categoryId) of the Kafka+Slack variant: guards the nil Data.
category(tx, categoryId) ==
    IF tx.category = Absent THEN FALSE ELSE tx.category = categoryId

\* Mutant: the comparison reversed, midnight after the creation time.
isTodayReversed(tx, t) == After(MidnightOf(t), tx.createdAt)

\* Mutant: compares with the clock reading instead of its midnight.
isTodayAfterNow(tx, t) == After(tx.createdAt, t)

\* isToday(transaction) evaluated when the clock reads t.
isToday(tx, t) == After(tx.createdAt, MidnightOf(t))

\* fresh() of the day-boundary variants.
fresh(tx, t) == isToday(tx, t)

\* check(transaction, amountBetween(-700, -400), weekday(), notForeign(),
\*       category("restaurants-and-cafes")) as called by updatePresence.
check(tx) ==
    /\ amountBetween(tx, -700, -400)
    /\ weekday(tx)
    /\ notForeign(tx)
    /\ category(tx, "restaurants-and-cafes")

\* present(latestTransaction) == check(latestTransaction, fresh())
present(tx, t) == fresh(tx, t)

presentString(tx, t) == IF present(tx, t) THEN "yes" ELSE "no"

---------------------------------------------------------------------------
(* Rendering *)

\* fmt.Sprintf("$%.2f", -float64(amount)/100.0) as <<dollars, cents>>.
FormatAmount(amount) == <<(0 - amount) \div 100, (0 - amount) % 100>>

ContradictionNotice == <<"(but he said he would be)">>

\* Mutant: every status but Untracked and WorkFromHome counts as a promise
\* to be in, the initial State(-1) included.
getReasonNotHome(presence, tx, state) ==
    IF ~presence /\ state \notin {"Untracked", "WorkFromHome"} THEN ContradictionNotice
    ELSE IF presence
         THEN <<"<img src=\"/favicon.ico\" />", FormatAmount(tx.amount), " on ",
                tx.description, " at ", Kitchen(tx.createdAt)>>
         ELSE <<>>

\* Mutant: the status is looked at first, whatever the presence.
getReasonStatusFirst(presence, tx, state) ==
    IF state = "WorkFromOffice" THEN ContradictionNotice
    ELSE IF presence
         THEN <<"<img src=\"/favicon.ico\" />", FormatAmount(tx.amount), " on ",
                tx.description, " at ", Kitchen(tx.createdAt)>>
         ELSE <<>>

\* getReason(presence, t) reading the status mirror value `state`.
getReason(presence, tx, state) ==
    IF ~presence /\ state = "WorkFromOffice" THEN ContradictionNotice
    ELSE IF presence
         THEN <<"<img src=\"/favicon.ico\" />", FormatAmount(tx.amount), " on ",
                tx.description, " at ", Kitchen(tx.createdAt)>>
         ELSE <<>>

\* []byte(fmt.Sprintf(indexHTML, title, desc)): the template with its two
\* verbs filled in.
Render(title, desc) == <<title, desc>>

\* The page refreshPage builds from transaction tx at clock t and status state.
BuildPage(tx, t, state) ==
    Render(presentString(tx, t), getReason(present(tx, t), tx, state))

\* Mutant: the first page, replacing the empty one, is not reported as a change.
replacedUnlessFirst(old, b) == old # <<>> /\ old # b

\* Mutant: every refresh reports a change.
replacedAlways(old, b) == TRUE

\* replacePage's return value: !bytes.Equal(old, b)
replaced(old, b) == old # b

\* Mutant: nothing is rejected, the incoming transaction always wins.
storeRejectsNothing(cached, tx) == FALSE

\* Mutant: only a transaction of an earlier day than the cached one is rejected.
storeRejectsEarlierDay(cached, tx) == After(MidnightOf(cached.createdAt), tx.createdAt)

\* Mutant: a transaction as old as the cached one is rejected too.
storeRejectsTies(cached, tx) == ~After(tx.createdAt, cached.createdAt)

\* store's early return: the cached transaction is strictly newer.
storeRejects(cached, tx) == After(cached.createdAt, tx.createdAt)

---------------------------------------------------------------------------
(* The external office-status service *)

\* office.State values the service answers with (office.StateUntracked is
\* the zero value).
RemoteStates == {"Untracked", "WorkFromHome", "WorkFromOffice"}

\* Outcomes of one GET of the day's state: a state, a transport error, or a
\* body that does not decode.
PollOutcomes == RemoteStates \cup {"neterr", "decodeerr"}

\* Mutant: only the transport error is mapped, a body that does not decode is
\* handed on as it came.
getOfficeStatusUndecoded(outcome) == IF outcome = "neterr" THEN "Untracked" ELSE outcome

\* getOfficeStatus() for a given outcome of the HTTP exchange.
getOfficeStatus(outcome) ==
    IF outcome \in {"neterr", "decodeerr"} THEN "Untracked" ELSE outcome

---------------------------------------------------------------------------
(* The record of the last operation *)

Event(op) ==
    [op |-> op, tx |-> ZeroTx, decoded |-> TRUE, tie |-> FALSE, passed |-> FALSE,
     stored |-> FALSE, fired |-> FALSE, raw |-> "", page |-> <<>>, code |-> 0,
     poll |-> "", slack |-> ""]

\* tx is another transaction than the cached one, created at the same instant.
SameInstantOtherTx(cached, tx) == tx.createdAt = cached.createdAt /\ tx # cached

\* A Kafka record value: a transaction event, or bytes json.Unmarshal rejects.
\* `valid` tells whether the decoder returns no error, `transaction` is what
\* it leaves in the target: nothing for bytes that are not JSON.
Undecodable == [valid |-> FALSE, transaction |-> ZeroTx]

\* A JSON document with a value of the wrong type beside the transaction
\* (an Account that is a number): the decoder reports the mismatch after it
\* has decoded the remaining fields, the Friday 08:30 purchase among them.
Mistyped ==
    [valid |-> FALSE,
     transaction |-> [Fixture EXCEPT !.createdAt = LocalInstant(0, 510),
                                     !.offset = MelbourneOffset]]

Payloads ==
    {[valid |-> TRUE, transaction |-> tx] : tx \in Transactions}
      \cup {Undecodable, Mistyped}

\* json.Unmarshal(message.Value, &transactionEvent) with the error dropped:
\* the event holds whatever the decoder stored before returning.
Unmarshal(payload) == payload.transaction

---------------------------------------------------------------------------
(* Kafka + Slack variant (lines 844-1181), each call run to completion *)

Init ==
    /\ now \in Clock
    /\ started = FALSE
    /\ crashed = FALSE
    /\ cachedTransaction = ZeroTx
    /\ indexPage = <<>>
    /\ latestStatus = "Unset"
    /\ nextMidnight = MidnightOf(now) + MinutesPerDay
    /\ last = Event("init")
    /\ document = ZeroTx
    /\ latestTransaction = ZeroTx
    /\ hpc = [h \in Handlers |-> "idle"]
    /\ hprev = [h \in Handlers |-> ZeroTx]
    /\ officeState = "Untracked"
    /\ lpc = "idle" /\ lpend = ZeroTx /\ lb = <<>> /\ lold = <<>> /\ lchanged = FALSE
    /\ dpc = "idle" /\ db = <<>> /\ dold = <<>> /\ dchanged = FALSE
    /\ slackLast = <<>> /\ slackIdle = FALSE
    /\ builtAt = [clock |-> ZeroTime, status |-> "Unset"]

\* How the POST of fireSlack ends: a 200, a transport error, another status.
SlackOutcomes == {"ok", "neterr", "non200"}

\* Mutant: the new page is kept only when the notification went through.
refreshPageUnlessPostFails(lt, ev) ==
    LET b == BuildPage(lt, now, latestStatus) IN
    \E outcome \in SlackOutcomes :
      /\ indexPage' = IF replaced(indexPage, b) /\ outcome # "ok" THEN indexPage ELSE b
      /\ last' = [ev EXCEPT !.fired = replaced(indexPage, b), !.page = b,
                           !.slack = IF replaced(indexPage, b) THEN outcome ELSE ""]

\* refreshPage() run against the cached transaction `lt`: replaces indexPage
\* and calls fireSlack when replacePage reports a change; fireSlack logs a
\* failed POST and returns.
refreshPage(lt, ev) ==
    LET b == BuildPage(lt, now, latestStatus) IN
    \E outcome \in SlackOutcomes :
      /\ indexPage' = b
      /\ last' = [ev EXCEPT !.fired = replaced(indexPage, b), !.page = b,
                           !.slack = IF replaced(indexPage, b) THEN outcome ELSE ""]

\* main(): the first refreshPage, then the goroutines are started.
Main ==
    /\ ~started
    /\ started' = TRUE
    /\ refreshPage(cachedTransaction, Event("main"))
    /\ nextMidnight' = MidnightOf(now) + MinutesPerDay
    /\ UNCHANGED <<firestoreVars, raceVars>>
    /\ UNCHANGED <<now, crashed, cachedTransaction, latestStatus>>

\* store(transaction)
store(tx, ev) ==
    IF storeRejects(cachedTransaction, tx)
    THEN /\ last' = ev
         /\ UNCHANGED <<cachedTransaction, indexPage>>
    ELSE /\ cachedTransaction' = tx
         /\ refreshPage(tx, [ev EXCEPT !.stored = TRUE])

\* updatePresence(transaction)
updatePresence(tx, ev) ==
    IF ~check(tx)
    THEN /\ last' = ev
         /\ UNCHANGED <<cachedTransaction, indexPage>>
    ELSE store(tx, [ev EXCEPT !.passed = TRUE])

\* One iteration of transactionListener's record loop.
TransactionListener ==
    /\ started /\ ~crashed
    /\ \E payload \in Payloads :
         LET tx == Unmarshal(payload) IN
         updatePresence(tx, [Event("updatePresence") EXCEPT
                               !.tx = tx, !.decoded = payload.valid,
                               !.tie = SameInstantOtherTx(cachedTransaction, tx)])
    /\ UNCHANGED <<firestoreVars, raceVars>>
    /\ UNCHANGED <<now, started, crashed, latestStatus, nextMidnight>>

\* One iteration of updateStatus: latestStatus = getOfficeStatus().
UpdateStatus ==
    /\ started /\ ~crashed
    /\ \E outcome \in PollOutcomes :
         /\ latestStatus' = getOfficeStatus(outcome)
         /\ last' = [Event("updateStatus") EXCEPT !.poll = outcome]
    /\ UNCHANGED <<firestoreVars, raceVars>>
    /\ UNCHANGED <<now, started, crashed, cachedTransaction, indexPage, nextMidnight>>

\* Mutant: the ticker's value is received but refreshPage is not called.
DailyTickerOnly ==
    /\ started /\ ~crashed
    /\ now >= nextMidnight
    /\ last' = Event("dailyPageRefresher")
    /\ nextMidnight' = MidnightOf(now) + MinutesPerDay
    /\ UNCHANGED <<firestoreVars, raceVars>>
    /\ UNCHANGED <<now, started, crashed, cachedTransaction, indexPage, latestStatus>>

\* One iteration of dailyPageRefresher: runDailyTicker has slept past
\* nextMidnight and sent on the channel; refreshPage runs and the ticker
\* computes the following midnight.
DailyPageRefresher ==
    /\ started /\ ~crashed
    /\ now >= nextMidnight
    /\ refreshPage(cachedTransaction, Event("dailyPageRefresher"))
    /\ nextMidnight' = MidnightOf(now) + MinutesPerDay
    /\ UNCHANGED <<firestoreVars, raceVars>>
    /\ UNCHANGED <<now, started, crashed, cachedTransaction, latestStatus>>

\* getLatest()
getLatest == cachedTransaction

\* The body rawHandler writes: presentString(getLatest()).
rawResponse == presentString(getLatest, now)

\* rawHandler (GET /raw)
RawHandler ==
    /\ started /\ ~crashed
    /\ last' = [Event("rawHandler") EXCEPT !.raw = rawResponse]
    /\ UNCHANGED <<firestoreVars, raceVars>>
    /\ UNCHANGED <<now, started, crashed, cachedTransaction, indexPage, latestStatus,
                   nextMidnight>>

\* indexHandler (GET /)
IndexHandler ==
    /\ started /\ ~crashed
    /\ last' = [Event("indexHandler") EXCEPT !.page = indexPage]
    /\ UNCHANGED <<firestoreVars, raceVars>>
    /\ UNCHANGED <<now, started, crashed, cachedTransaction, indexPage, latestStatus,
                   nextMidnight>>

\* The wall clock moves on.
Tick ==
    /\ \E t \in Clock : t > now /\ now' = t
    /\ last' = Event("tick")
    /\ UNCHANGED <<firestoreVars, raceVars>>
    /\ UNCHANGED <<started, crashed, cachedTransaction, indexPage, latestStatus,
                   nextMidnight>>

Next ==
    \/ Main
    \/ TransactionListener
    \/ UpdateStatus
    \/ DailyPageRefresher
    \/ RawHandler
    \/ IndexHandler
    \/ Tick

Spec == Init /\ [][Next]_vars

\* Records the topic delivers over the days: qualifying purchases of two
\* amounts at each time, and a value that does not decode.
Purchases ==
    {[valid |-> TRUE,
      transaction |-> [Fixture EXCEPT !.amount = a, !.createdAt = t,
                                      !.offset = MelbourneOffset]] :
        a \in {-700, -400}, t \in TxTimes} \cup {Undecodable}

\* One iteration of transactionListener's record loop, on those records.
PurchaseListener ==
    /\ started /\ ~crashed
    /\ \E payload \in Purchases :
         LET tx == Unmarshal(payload) IN
         updatePresence(tx, [Event("updatePresence") EXCEPT !.decoded = payload.valid])
    /\ UNCHANGED <<firestoreVars, raceVars>>
    /\ UNCHANGED <<now, started, crashed, latestStatus, nextMidnight>>

NextDaily ==
    \/ Main
    \/ PurchaseListener
    \/ UpdateStatus
    \/ DailyPageRefresher
    \/ RawHandler
    \/ IndexHandler
    \/ Tick

\* The program with its scheduling: main runs, and the ticker goroutine and
\* the refresher goroutine are never starved once a midnight has passed.
SpecDaily ==
    Init /\ [][NextDaily]_vars /\ WF_vars(Main) /\ WF_vars(DailyPageRefresher)

---------------------------------------------------------------------------
(* First Kafka variant (lines 1-273): no Slack, no daily refresher, and a *)
(* category decider that dereferences Category.Data unguarded             *)

\* category(categoryId) of lines 182-186 (and 467-471, 718-722):
\* transaction.Relationships.Category.Data.Id with Data == nil panics.
categoryUnguarded(tx, categoryId) ==
    IF tx.category = Absent THEN "panic"
    ELSE IF tx.category = categoryId THEN "true" ELSE "false"

\* check(...) of updatePresence, lines 111-117: the deciders run in order and
\* the first failing one ends the loop.
checkUnguarded(tx) ==
    IF ~amountBetween(tx, -700, -400) THEN "false"
    ELSE IF ~weekday(tx) THEN "false"
    ELSE IF ~notForeign(tx) THEN "false"
    ELSE categoryUnguarded(tx, "restaurants-and-cafes")

\* refreshPage() of lines 268-273: indexPage is overwritten, nothing is fired.
refreshPagePlain(lt, ev) ==
    LET b == BuildPage(lt, now, latestStatus) IN
    /\ indexPage' = b
    /\ last' = [ev EXCEPT !.page = b]

\* main() of lines 38-62.
MainKafka ==
    /\ ~started
    /\ started' = TRUE
    /\ refreshPagePlain(cachedTransaction, Event("main"))
    /\ UNCHANGED <<firestoreVars, raceVars>>
    /\ UNCHANGED <<now, crashed, cachedTransaction, latestStatus, nextMidnight>>

\* store(transaction) of lines 259-266.
storePlain(tx, ev) ==
    IF storeRejects(cachedTransaction, tx)
    THEN /\ last' = ev
         /\ UNCHANGED <<cachedTransaction, indexPage>>
    ELSE /\ cachedTransaction' = tx
         /\ refreshPagePlain(tx, [ev EXCEPT !.stored = TRUE])

\* One iteration of transactionListener's record loop, lines 83-91.  A panic
\* in this goroutine is recovered nowhere: the process dies.
TransactionListenerKafka ==
    /\ started /\ ~crashed
    /\ \E payload \in Payloads :
         LET tx == Unmarshal(payload)
             ev == [Event("updatePresence") EXCEPT
                      !.tx = tx, !.decoded = payload.valid,
                      !.tie = SameInstantOtherTx(cachedTransaction, tx)]
         IN  CASE checkUnguarded(tx) = "panic" ->
                    /\ crashed' = TRUE
                    /\ last' = ev
                    /\ UNCHANGED <<cachedTransaction, indexPage>>
               [] checkUnguarded(tx) = "false" ->
                    /\ last' = ev
                    /\ UNCHANGED <<crashed, cachedTransaction, indexPage>>
               [] checkUnguarded(tx) = "true" ->
                    /\ storePlain(tx, [ev EXCEPT !.passed = TRUE])
                    /\ UNCHANGED crashed
    /\ UNCHANGED <<firestoreVars, raceVars>>
    /\ UNCHANGED <<now, started, latestStatus, nextMidnight>>

NextKafka ==
    \/ MainKafka
    \/ TransactionListenerKafka
    \/ UpdateStatus
    \/ RawHandler
    \/ IndexHandler
    \/ Tick

SpecKafka == Init /\ [][NextKafka]_vars

\* C4 as claimed: classifying a transaction whose category relationship is
\* absent returns normally with a negative result; the listener survives and
\* the cache is not changed.
C4_AbsentCategoryRejectedWithoutCrash ==
    (last.op = "updatePresence" /\ last.tx.category = Absent)
        => (~crashed /\ ~last.passed /\ ~last.stored)

---------------------------------------------------------------------------
(* Rolling-window variant (lines 275-507): webhook, Firestore document,    *)
(* global latestTransaction refreshed by every handler, 12-hour freshness  *)

\* time.Duration saturates at its largest value, 2^63-1 ns, in minutes.
MaxDuration == 153722867

\* time.Since(t) when the clock reads n: n.Sub(t), saturating.
Since(t, n) ==
    IF n - t > MaxDuration THEN MaxDuration
    ELSE IF n - t < 0 - MaxDuration THEN 0 - MaxDuration
    ELSE n - t

\* Mutant: a transaction exactly maxAge old is no longer fresh.
freshRollingStrict(tx, t, maxAge) == Since(tx.createdAt, t) < maxAge

\* fresh(maxAge) of lines 454-459.
freshRolling(tx, t, maxAge) == Since(tx.createdAt, t) <= maxAge

\* present() of lines 409-413, on the global latestTransaction `tx`.
presentRolling(tx, t) == freshRolling(tx, t, TwelveHours)

\* presentString() of lines 415-420.
presentStringRolling(tx, t) == IF presentRolling(tx, t) THEN "yes" ELSE "no"

\* check(...) of updatePresence, lines 395-401, with timeBetween(6, 12).
checkRolling(tx) ==
    IF ~amountBetween(tx, -700, -400) THEN "false"
    ELSE IF ~timeBetween(tx, 6, 12) THEN "false"
    ELSE IF ~weekday(tx) THEN "false"
    ELSE IF ~notForeign(tx) THEN "false"
    ELSE categoryUnguarded(tx, "restaurants-and-cafes")

\* Instants at which the transactions offered to this variant are created:
\* Friday 08:30, Friday 12:30 and Saturday 08:30 local time.
TxTimesRolling == {LocalInstant(0, 510), LocalInstant(0, 750), LocalInstant(1, 510)}

TransactionsRolling ==
    {[v EXCEPT !.createdAt = t, !.offset = o] :
        v \in Variants, t \in TxTimesRolling, o \in TxOffsets}

\* Request bodies: a webhook event, or bytes the JSON decoder rejects.
Bodies ==
    {[valid |-> TRUE, transaction |-> tx] : tx \in TransactionsRolling}
      \cup {Undecodable, Mistyped}

\* Clock readings of this variant: those of Clock, and one minute before,
\* exactly at and one minute after 12 hours past the Friday transactions.
ClockRolling ==
    Clock \cup {LocalInstant(0, m) + TwelveHours + d : m \in {510, 750}, d \in {-1, 0, 1}}

\* latestTransaction.Attributes.CreatedAt.Format(time.RFC1123)
RFC1123(t, off) ==
    <<Weekday(t, off), (t + off) \div MinutesPerDay, Hour(t, off), (t + off) % 60, off>>

\* getLatest() of lines 473-490: the document, or the zero value with an
\* error when the client, the read or the conversion fails.
getLatestFirestore(ok) == IF ok THEN document ELSE ZeroTx

InitRolling ==
    /\ now \in ClockRolling
    /\ started = FALSE
    /\ crashed = FALSE
    /\ cachedTransaction = ZeroTx
    /\ indexPage = <<>>
    /\ latestStatus = "Unset"
    /\ nextMidnight = MidnightOf(now) + MinutesPerDay
    /\ last = Event("init")
    /\ document = ZeroTx
    /\ latestTransaction = ZeroTx
    /\ hpc = [h \in Handlers |-> "idle"]
    /\ hprev = [h \in Handlers |-> ZeroTx]
    /\ officeState = "Untracked"
    /\ lpc = "idle" /\ lpend = ZeroTx /\ lb = <<>> /\ lold = <<>> /\ lchanged = FALSE
    /\ dpc = "idle" /\ db = <<>> /\ dold = <<>> /\ dchanged = FALSE
    /\ slackLast = <<>> /\ slackIdle = FALSE
    /\ builtAt = [clock |-> ZeroTime, status |-> "Unset"]

\* store(transaction) of lines 492-507, compared against the global `lt`.
storeRolling(lt, tx, ev) ==
    \E clientOk \in BOOLEAN, setOk \in BOOLEAN :
    IF ~clientOk
    THEN /\ last' = [ev EXCEPT !.code = 500]
         /\ UNCHANGED document
    ELSE IF storeRejects(lt, tx)
    THEN /\ last' = [ev EXCEPT !.code = 200]
         /\ UNCHANGED document
    ELSE IF ~setOk
    THEN /\ last' = [ev EXCEPT !.code = 500]
         /\ UNCHANGED document
    ELSE /\ document' = tx
         /\ last' = [ev EXCEPT !.code = 200, !.stored = TRUE]

\* webhookHandler of lines 334-351 (a POST).  A panic in the handler is
\* recovered by net/http: the request is aborted, the server lives on.
WebhookHandlerRolling ==
    /\ \E getOk \in BOOLEAN, body \in Bodies :
         LET lt == getLatestFirestore(getOk)
             tx == body.transaction
             ev == [Event("webhookHandler") EXCEPT !.tx = tx, !.decoded = body.valid]
         IN  /\ latestTransaction' = lt
             /\ IF ~body.valid
                THEN /\ last' = [ev EXCEPT !.code = 400]
                     /\ UNCHANGED document
                ELSE CASE checkRolling(tx) = "panic" ->
                            /\ last' = [ev EXCEPT !.code = -1]
                            /\ UNCHANGED document
                       [] checkRolling(tx) = "false" ->
                            /\ last' = [ev EXCEPT !.code = 200]
                            /\ UNCHANGED document
                       [] checkRolling(tx) = "true" ->
                            storeRolling(lt, tx, [ev EXCEPT !.passed = TRUE])
    /\ UNCHANGED <<now, kafkaVars, hpc, hprev, officeState>>

\* rawHandler of lines 357-365.
RawHandlerRolling ==
    /\ \E getOk \in BOOLEAN :
         LET lt == getLatestFirestore(getOk) IN
         /\ latestTransaction' = lt
         /\ last' = [Event("rawHandler") EXCEPT
                       !.raw = presentStringRolling(lt, now), !.code = 200]
    /\ UNCHANGED <<now, kafkaVars, document, hpc, hprev, officeState>>

\* indexHandler of lines 367-392.
IndexHandlerRolling ==
    /\ \E getOk \in BOOLEAN :
         LET lt == getLatestFirestore(getOk) IN
         /\ latestTransaction' = lt
         /\ last' = [Event("indexHandler") EXCEPT
                       !.page = <<presentStringRolling(lt, now), lt.description,
                                  FormatAmount(lt.amount),
                                  RFC1123(lt.createdAt, lt.offset)>>,
                       !.code = 200]
    /\ UNCHANGED <<now, kafkaVars, document, hpc, hprev, officeState>>

\* The wall clock moves on.
TickRolling ==
    /\ \E t \in ClockRolling : t > now /\ now' = t
    /\ last' = Event("tick")
    /\ UNCHANGED <<kafkaVars, firestoreVars>>

NextRolling ==
    \/ WebhookHandlerRolling
    \/ RawHandlerRolling
    \/ IndexHandlerRolling
    \/ TickRolling

SpecRolling == InitRolling /\ [][NextRolling]_vars

\* C10: GET /raw of the rolling-window variant answers "yes" exactly when the
\* loaded transaction is at most 12 hours old: "yes" at 11h59m, "no" at 12h01m.
C10_YesIffAtMost12hOld ==
    last.op = "rawHandler" =>
        /\ last.raw = "yes" <=> now - latestTransaction.createdAt <= 12 * 60
        /\ now - latestTransaction.createdAt = 11 * 60 + 59 => last.raw = "yes"
        /\ now - latestTransaction.createdAt = 12 * 60 + 1 => last.raw = "no"

\* C10 witness: GET /raw answered "yes" for a transaction 11h59m old.
C10_YesAt11h59 ==
    /\ last.op = "rawHandler" /\ last.raw = "yes"
    /\ now - latestTransaction.createdAt = 11 * 60 + 59

---------------------------------------------------------------------------
(* Day-boundary Firestore variant (lines 509-842): webhook requests served *)
(* concurrently, each a getLatest, then decode/check/store, then the       *)
(* office-status GET and PUT                                               *)

\* Transactions posted to the webhook: the variants, created Friday 08:30 or
\* Friday 23:00 local time.
TransactionsWebhook ==
    {[v EXCEPT !.createdAt = t, !.offset = MelbourneOffset] :
        v \in Variants, t \in {LocalInstant(0, 510), LocalInstant(0, 1380)}}

BodiesWebhook ==
    {[valid |-> TRUE, transaction |-> tx] : tx \in TransactionsWebhook}
      \cup {Undecodable, Mistyped}

\* What one GET of the day's state can yield while the service holds `held`.
GetOutcomes(held) == {held, "neterr", "decodeerr"}

\* getReason(presence) of lines 756-762, for the state getOfficeStatus returned.
getReasonFirestore(presence, state) ==
    IF ~presence /\ state = "WorkFromOffice" THEN ContradictionNotice ELSE <<>>

\* The response of a finished request.
Respond(h, code, stored) ==
    last' = [Event("webhookHandler") EXCEPT !.code = code, !.stored = stored]

\* webhookHandler, lines 578-583: latestTransaction, err := getLatest()
HandlerGetLatest(h) ==
    /\ hpc[h] = "idle"
    /\ \E getOk \in BOOLEAN :
         IF getOk
         THEN /\ hpc' = [hpc EXCEPT ![h] = "loaded"]
              /\ hprev' = [hprev EXCEPT ![h] = document]
              /\ UNCHANGED last
         ELSE /\ Respond(h, 500, FALSE)
              /\ UNCHANGED <<hpc, hprev>>
    /\ UNCHANGED <<now, kafkaVars, document, latestTransaction, officeState>>

\* store(prevTransaction, transaction), lines 823-836, up to doc.Set.
storeFirestore(h, tx) ==
    \E clientOk \in BOOLEAN, setOk \in BOOLEAN :
      IF ~clientOk
      THEN /\ Respond(h, 500, FALSE)
           /\ hpc' = [hpc EXCEPT ![h] = "idle"]
           /\ UNCHANGED document
      ELSE IF storeRejects(hprev[h], tx)
      THEN /\ Respond(h, 200, FALSE)
           /\ hpc' = [hpc EXCEPT ![h] = "idle"]
           /\ UNCHANGED document
      ELSE IF ~setOk
      THEN /\ Respond(h, 500, FALSE)
           /\ hpc' = [hpc EXCEPT ![h] = "idle"]
           /\ UNCHANGED document
      ELSE /\ document' = tx
           /\ hpc' = [hpc EXCEPT ![h] = "stored"]
           /\ UNCHANGED last

\* webhookHandler, lines 584-594, and updatePresence, lines 646-659: the body
\* is decoded and classified, and a qualifying transaction is stored.
HandlerUpdatePresence(h) ==
    /\ hpc[h] = "loaded"
    /\ \E body \in BodiesWebhook :
         LET tx == body.transaction IN
         IF ~body.valid
         THEN /\ Respond(h, 400, FALSE)
              /\ hpc' = [hpc EXCEPT ![h] = "idle"]
              /\ UNCHANGED document
         ELSE CASE checkUnguarded(tx) = "panic" ->
                     /\ Respond(h, -1, FALSE)
                     /\ hpc' = [hpc EXCEPT ![h] = "idle"]
                     /\ UNCHANGED document
                [] checkUnguarded(tx) = "false" ->
                     /\ Respond(h, 200, FALSE)
                     /\ hpc' = [hpc EXCEPT ![h] = "idle"]
                     /\ UNCHANGED document
                [] checkUnguarded(tx) = "true" -> storeFirestore(h, tx)
    /\ hprev' = [hprev EXCEPT ![h] = ZeroTx]
    /\ UNCHANGED <<now, kafkaVars, latestTransaction, officeState>>

\* updateOfficeStatus, lines 790-794: existingStatus := getOfficeStatus()
HandlerGetOfficeStatus(h) ==
    /\ hpc[h] = "stored"
    /\ \E outcome \in GetOutcomes(officeState) :
         IF getOfficeStatus(outcome) # "Untracked"
         THEN /\ Respond(h, 200, TRUE)
              /\ hpc' = [hpc EXCEPT ![h] = "idle"]
         ELSE /\ hpc' = [hpc EXCEPT ![h] = "putting"]
              /\ UNCHANGED last
    /\ UNCHANGED <<now, kafkaVars, document, latestTransaction, hprev, officeState>>

\* updateOfficeStatus, lines 795-820: the PUT of WorkFromOffice.  The service
\* may or may not apply it; a transport error makes the handler answer 500.
HandlerPutOfficeStatus(h) ==
    /\ hpc[h] = "putting"
    /\ \E applied \in BOOLEAN, putOk \in BOOLEAN :
         /\ officeState' = IF applied THEN "WorkFromOffice" ELSE officeState
         /\ Respond(h, IF putOk THEN 200 ELSE 500, TRUE)
    /\ hpc' = [hpc EXCEPT ![h] = "idle"]
    /\ UNCHANGED <<now, kafkaVars, document, latestTransaction, hprev>>

\* rawHandler, lines 597-610.
RawHandlerFirestore ==
    /\ \E getOk \in BOOLEAN :
         last' = IF getOk
                 THEN [Event("rawHandler") EXCEPT
                         !.raw = presentString(document, now), !.code = 200]
                 ELSE [Event("rawHandler") EXCEPT !.code = 500]
    /\ UNCHANGED <<now, kafkaVars, firestoreVars>>

\* indexHandler, lines 612-644: getReason calls getOfficeStatus inline.
IndexHandlerFirestore ==
    /\ \E getOk \in BOOLEAN, outcome \in GetOutcomes(officeState) :
         last' = IF getOk
                 THEN [Event("indexHandler") EXCEPT
                         !.page = <<presentString(document, now), document.description,
                                    FormatAmount(document.amount),
                                    RFC1123(document.createdAt, document.offset),
                                    getReasonFirestore(present(document, now),
                                                       getOfficeStatus(outcome))>>,
                         !.code = 200, !.poll = outcome]
                 ELSE [Event("indexHandler") EXCEPT !.code = 500]
    /\ UNCHANGED <<now, kafkaVars, firestoreVars>>

\* The person records a state for the day at the office-status service.
OfficeUser ==
    /\ \E st \in RemoteStates : officeState' = st
    /\ last' = Event("officeUser")
    /\ UNCHANGED <<now, kafkaVars, document, latestTransaction, hpc, hprev>>

NextWebhook ==
    \/ \E h \in Handlers : HandlerGetLatest(h)
    \/ \E h \in Handlers : HandlerUpdatePresence(h)
    \/ \E h \in Handlers : HandlerGetOfficeStatus(h)
    \/ \E h \in Handlers : HandlerPutOfficeStatus(h)
    \/ RawHandlerFirestore
    \/ IndexHandlerFirestore
    \/ OfficeUser
    \/ Tick

SpecWebhook == Init /\ [][NextWebhook]_vars

\* C7 as claimed: with webhook requests handled concurrently, the createdAt
\* of the stored document never regresses.
C7_DocumentNeverRegresses ==
    [][document'.createdAt >= document.createdAt]_vars

---------------------------------------------------------------------------
(* Kafka + Slack variant with the statements of store/refreshPage of the   *)
(* listener goroutine and of refreshPage of the daily refresher goroutine  *)
(* interleaved: no lock guards cachedTransaction or indexPage              *)

\* fireSlack(title, desc): the payload of the call is recorded.
fireSlack(b) == slackLast' = b

\* What an unsynchronised read of cachedTransaction can return: the value,
\* or, while the listener's struct assignment is under way, any mix of the
\* fields of the old and of the new value.
RacyRead ==
    IF lpc = "assign"
    THEN {[amount |-> a.amount, createdAt |-> c.createdAt, offset |-> c.offset,
           description |-> d.description, foreign |-> f.foreign,
           category |-> g.category] :
             a \in {cachedTransaction, lpend}, c \in {cachedTransaction, lpend},
             d \in {cachedTransaction, lpend}, f \in {cachedTransaction, lpend},
             g \in {cachedTransaction, lpend}}
    ELSE {cachedTransaction}

\* Records the topic delivers while the refreshes interleave: qualifying
\* purchases of two amounts at each time, and a value that does not decode.
PayloadsRace ==
    {[valid |-> TRUE,
      transaction |-> [Fixture EXCEPT !.amount = a, !.createdAt = t,
                                      !.offset = MelbourneOffset]] :
        a \in {-700, -400}, t \in TxTimes} \cup {Undecodable}

\* main(): refreshPage runs before any goroutine is started.
MainRace ==
    /\ ~started
    /\ started' = TRUE
    /\ LET b == BuildPage(cachedTransaction, now, latestStatus) IN
         /\ indexPage' = b
         /\ IF replaced(indexPage, b)
            THEN fireSlack(b)
            ELSE UNCHANGED slackLast
    /\ builtAt' = [clock |-> now, status |-> latestStatus]
    /\ nextMidnight' = MidnightOf(now) + MinutesPerDay
    /\ UNCHANGED <<now, last, crashed, cachedTransaction, latestStatus, firestoreVars,
                   lpc, lpend, lb, lold, lchanged, dpc, db, dold, dchanged, slackIdle>>

\* transactionListener: a record is taken, updatePresence classifies it and
\* store compares it (lines 964-977, 1117-1120).
ListenerStore ==
    /\ started /\ lpc = "idle"
    /\ \E payload \in PayloadsRace :
         LET tx == Unmarshal(payload) IN
         IF check(tx) /\ ~storeRejects(cachedTransaction, tx)
         THEN lpc' = "assign" /\ lpend' = tx
         ELSE UNCHANGED <<lpc, lpend>>
    /\ UNCHANGED <<now, last, started, crashed, cachedTransaction, indexPage, latestStatus,
                   nextMidnight, firestoreVars, lb, lold, dpc, db, dold, slackLast,
                   slackIdle, builtAt, lchanged, dchanged>>

\* store, line 1122: cachedTransaction = transaction
ListenerAssign ==
    /\ lpc = "assign"
    /\ cachedTransaction' = lpend
    /\ lpc' = "build" /\ lpend' = ZeroTx
    /\ UNCHANGED <<now, last, started, crashed, indexPage, latestStatus, nextMidnight,
                   firestoreVars, lb, lold, dpc, db, dold, slackLast, slackIdle,
                   builtAt, lchanged, dchanged>>

\* refreshPage, lines 1127-1130, in the listener.
ListenerBuild ==
    /\ lpc = "build"
    /\ lb' = BuildPage(cachedTransaction, now, latestStatus)
    /\ builtAt' = [clock |-> now, status |-> latestStatus]
    /\ lpc' = "read"
    /\ UNCHANGED <<now, last, started, crashed, cachedTransaction, indexPage, latestStatus,
                   nextMidnight, firestoreVars, lpend, lold, dpc, db, dold, slackLast,
                   slackIdle, lchanged, dchanged>>

\* replacePage, line 1137: old := indexPage
ListenerReadOld ==
    /\ lpc = "read"
    /\ lold' = indexPage
    /\ lpc' = "write"
    /\ UNCHANGED <<now, last, started, crashed, cachedTransaction, indexPage, latestStatus,
                   nextMidnight, firestoreVars, lpend, lb, dpc, db, dold, slackLast,
                   slackIdle, builtAt, lchanged, dchanged>>

\* replacePage, line 1138: indexPage = b
ListenerWrite ==
    /\ lpc = "write"
    /\ indexPage' = lb
    /\ lchanged' = (indexPage # lb)
    /\ lpc' = "fire"
    /\ UNCHANGED <<now, last, started, crashed, cachedTransaction, latestStatus,
                   nextMidnight, firestoreVars, lpend, lb, lold, dpc, db, dold, slackLast,
                   slackIdle, builtAt, dchanged>>

\* replacePage, line 1139, and refreshPage, lines 1131-1133: on a change
\* fireSlack is entered and its POST (line 1149) is sent from the listener's
\* goroutine.
ListenerFire ==
    /\ lpc = "fire"
    /\ IF replaced(lold, lb)
       THEN /\ fireSlack(lb) /\ slackIdle' = (slackIdle \/ ~lchanged)
            /\ lpc' = "posting"
       ELSE /\ UNCHANGED <<slackLast, slackIdle>>
            /\ lpc' = "idle"
    /\ lb' = <<>> /\ lold' = <<>> /\ lchanged' = FALSE
    /\ UNCHANGED <<now, last, started, crashed, cachedTransaction, indexPage, latestStatus,
                   nextMidnight, firestoreVars, lpend, dpc, db, dold, builtAt, dchanged>>

\* fireSlack, lines 1149-1158: http.DefaultClient.Post returns, with an
\* error, a non-200 answer or a 200; each is at most logged, and updatePresence
\* returns to the record loop.
ListenerPosted ==
    /\ lpc = "posting"
    /\ lpc' = "idle"
    /\ UNCHANGED <<now, last, started, crashed, cachedTransaction, indexPage, latestStatus,
                   nextMidnight, firestoreVars, lpend, lb, lold, lchanged, dpc, db, dold,
                   dchanged, slackLast, slackIdle, builtAt>>

\* dailyPageRefresher, line 1165: the ticker's send is received.
DailyWake ==
    /\ started /\ dpc = "idle"
    /\ now >= nextMidnight
    /\ nextMidnight' = MidnightOf(now) + MinutesPerDay
    /\ dpc' = "build"
    /\ UNCHANGED <<now, last, started, crashed, cachedTransaction, indexPage, latestStatus,
                   firestoreVars, lpc, lpend, lb, lold, db, dold, slackLast, slackIdle,
                   builtAt, lchanged, dchanged>>

\* refreshPage, lines 1127-1130, in the daily refresher.
DailyBuild ==
    /\ dpc = "build"
    /\ \E lt \in RacyRead : db' = BuildPage(lt, now, latestStatus)
    /\ builtAt' = [clock |-> now, status |-> latestStatus]
    /\ dpc' = "read"
    /\ UNCHANGED <<now, last, started, crashed, cachedTransaction, indexPage, latestStatus,
                   nextMidnight, firestoreVars, lpc, lpend, lb, lold, dold, slackLast,
                   slackIdle, lchanged, dchanged>>

\* replacePage, line 1137: old := indexPage
DailyReadOld ==
    /\ dpc = "read"
    /\ dold' = indexPage
    /\ dpc' = "write"
    /\ UNCHANGED <<now, last, started, crashed, cachedTransaction, indexPage, latestStatus,
                   nextMidnight, firestoreVars, lpc, lpend, lb, lold, db, slackLast,
                   slackIdle, builtAt, lchanged, dchanged>>

\* replacePage, line 1138: indexPage = b
DailyWrite ==
    /\ dpc = "write"
    /\ indexPage' = db
    /\ dchanged' = (indexPage # db)
    /\ dpc' = "fire"
    /\ UNCHANGED <<now, last, started, crashed, cachedTransaction, latestStatus,
                   nextMidnight, firestoreVars, lpc, lpend, lb, lold, db, dold, slackLast,
                   slackIdle, builtAt, lchanged>>

\* replacePage, line 1139, and refreshPage, lines 1131-1133.
DailyFire ==
    /\ dpc = "fire"
    /\ IF replaced(dold, db)
       THEN fireSlack(db) /\ slackIdle' = (slackIdle \/ ~dchanged)
       ELSE UNCHANGED <<slackLast, slackIdle>>
    /\ dpc' = "idle" /\ db' = <<>> /\ dold' = <<>> /\ dchanged' = FALSE
    /\ UNCHANGED <<now, last, started, crashed, cachedTransaction, indexPage, latestStatus,
                   nextMidnight, firestoreVars, lpc, lpend, lb, lold, builtAt, lchanged>>

NextRace ==
    \/ MainRace
    \/ ListenerStore
    \/ ListenerAssign
    \/ ListenerBuild
    \/ ListenerReadOld
    \/ ListenerWrite
    \/ ListenerFire
    \/ ListenerPosted
    \/ DailyWake
    \/ DailyBuild
    \/ DailyReadOld
    \/ DailyWrite
    \/ DailyFire
    \/ UpdateStatus
    \/ Tick

SpecRace == Init /\ [][NextRace]_vars

\* No refreshPage call is under way.
Quiescent == started /\ lpc = "idle" /\ dpc = "idle"

\* C6 as claimed: the read-compare-replace of the rendered page is atomic with
\* respect to the other goroutine, so no two consecutive Slack calls carry the
\* same payload (one change, at most one call), and once no refresh is under
\* way indexPage is the rendering of the current cachedTransaction as of the
\* C6 as claimed: the read-compare-replace of the rendered page is atomic with
\* respect to the other goroutine, so every fireSlack call follows a write
\* that changed indexPage (one change, at most one call), and once no refresh
\* is under way indexPage is the rendering of the current cachedTransaction as
\* of the latest build.
C6_RefreshIsAtomic ==
    /\ ~slackIdle
    /\ Quiescent => indexPage = BuildPage(cachedTransaction, builtAt.clock, builtAt.status)

(* Properties of the Kafka + Slack variant *)

\* The step is a call of updatePresence whose transaction passed check.
OfferedQualifying == last'.op = "updatePresence" /\ last'.passed

\* The step ran refreshPage: main, the daily refresher, or an accepting store.
RanRefreshPage ==
    \/ last'.op \in {"main", "dailyPageRefresher"}
    \/ last'.op = "updatePresence" /\ last'.stored

\* C1: across every step the createdAt of cachedTransaction never decreases,
\* and a qualifying transaction older than the cached one leaves the cache
\* as it was.
C1_CreatedAtNeverDecreases ==
    [][ /\ cachedTransaction'.createdAt >= cachedTransaction.createdAt
        /\ (OfferedQualifying /\ last'.tx.createdAt < cachedTransaction.createdAt)
              => cachedTransaction' = cachedTransaction ]_vars

\* C1 witness: a qualifying transaction older than the cached one was offered
\* and the cache still holds the newer one.
C1_OlderOfferedAfterNewer ==
    /\ last.op = "updatePresence" /\ last.passed /\ ~last.stored
    /\ last.tx.createdAt < cachedTransaction.createdAt
    /\ cachedTransaction.createdAt \in TxTimes

C3_PassedIffAllFour ==
    last.op = "updatePresence" =>
        (last.passed <=>
            /\ last.tx.amount \in -700 .. -400
            /\ Weekday(last.tx.createdAt, last.tx.offset) \in 1 .. 5
            /\ ~last.tx.foreign
            /\ last.tx.category = "restaurants-and-cafes")

\* C3 witness: a transaction on the lower amount bound was handed to store.
C3_BoundaryAmountPassed ==
    last.op = "updatePresence" /\ last.passed /\ last.tx.amount = -700

\* C5: a step fires Slack exactly when it ran refreshPage and the page it
\* built differs from the previous indexPage.
C5_FiresIffPageChanged ==
    [][ /\ RanRefreshPage => (last'.fired <=> indexPage' # indexPage)
        /\ last'.fired => RanRefreshPage ]_vars

\* C5 witness: an accepted transaction rebuilt a page equal to the previous
\* one and nothing was fired.
C5_SamePageNoNotification ==
    /\ last.op = "updatePresence" /\ last.stored /\ ~last.fired
    /\ last.page = indexPage
    /\ indexPage[1] = "yes"

\* C8: once updatePresence has processed a qualifying transaction that is not
\* older than the cached one and was created after the current local
\* midnight, GET /raw answers "yes", and it keeps answering "yes" for as long
\* as the clock stays within the same local day.
C8_YesUntilMidnight ==
    [][ /\ ( /\ OfferedQualifying
             /\ ~After(cachedTransaction.createdAt, last'.tx.createdAt)
             /\ After(last'.tx.createdAt, MidnightOf(now)) )
           => rawResponse' = "yes"
        /\ (rawResponse = "yes" /\ MidnightOf(now') = MidnightOf(now))
           => rawResponse' = "yes" ]_vars

\* C8 witness: GET /raw answered "yes" from a transaction created today.
C8_RawAnsweredYes ==
    /\ last.op = "rawHandler" /\ last.raw = "yes"
    /\ After(cachedTransaction.createdAt, MidnightOf(now))
    /\ cachedTransaction.createdAt <= now

\* C9 as claimed: presence is "yes" whenever the cached qualifying transaction
\* is less than 12 hours old.
C9_YesWhileYoungerThan12h ==
    ( /\ cachedTransaction # ZeroTx
      /\ cachedTransaction.createdAt <= now
      /\ now - cachedTransaction.createdAt < TwelveHours )
    => rawResponse = "yes"

\* C11: while the cache holds the zero-value transaction, presence is "no"
\* whatever the clock reads: GET /raw answers "no", the rendered page is
\* titled "no", and the 12-hour rolling rule gives "no" as well.
C11_EmptyCacheIsNo ==
    cachedTransaction = ZeroTx =>
        /\ rawResponse = "no"
        /\ last.op = "rawHandler" => last.raw = "no"
        /\ started => indexPage[1] = "no"
        /\ presentStringRolling(getLatest, now) = "no"

\* C11 witness: GET /raw answered "no" on the second day with the cache still
\* empty.
C11_EmptyCacheAskedNextDay ==
    /\ last.op = "rawHandler" /\ last.raw = "no"
    /\ cachedTransaction = ZeroTx
    /\ now >= LocalInstant(1, 0)

\* A local midnight has passed that the daily refresher has not served yet.
MidnightDue == started /\ now >= nextMidnight

\* The served page says "yes" for a transaction that is not of today.
PageOutlived == started /\ indexPage[1] = "yes" /\ ~present(cachedTransaction, now)

OfferedFailing ==
    /\ last'.op = "updatePresence"
    /\ \/ last'.tx.amount \notin -700 .. -400
       \/ Weekday(last'.tx.createdAt, last'.tx.offset) \notin 1 .. 5
       \/ last'.tx.foreign
       \/ last'.tx.category # "restaurants-and-cafes"

\* C13: updatePresence on a transaction that fails classification changes
\* nothing: cachedTransaction and indexPage stay as they were, nothing is
\* fired, and GET /raw answers as before.
C13_RejectedChangesNothing ==
    [][ OfferedFailing =>
          /\ ~last'.passed /\ ~last'.stored /\ ~last'.fired
          /\ cachedTransaction' = cachedTransaction
          /\ indexPage' = indexPage
          /\ rawResponse' = rawResponse ]_vars

\* C13 witness: a decoded transaction newer than the cached purchase failed
\* classification and the cache still holds the purchase.
C13_NewerRejected ==
    /\ last.op = "updatePresence" /\ last.decoded /\ ~last.passed
    /\ cachedTransaction # ZeroTx
    /\ last.tx.createdAt > cachedTransaction.createdAt

\* C14: a qualifying transaction created strictly before the cached one is
\* dropped: cachedTransaction and indexPage stay as they were, refreshPage is
\* not called (no page is built) and nothing is fired.
C14_StaleDroppedSilently ==
    [][ (OfferedQualifying /\ After(cachedTransaction.createdAt, last'.tx.createdAt))
          => /\ ~last'.stored /\ ~last'.fired
             /\ last'.page = <<>>
             /\ cachedTransaction' = cachedTransaction
             /\ indexPage' = indexPage ]_vars

\* C14 witness: the Friday 08:30 purchase was offered while the cache held the
\* Friday 23:00 one, and the page still is the one built for the latter.
C14_MorningAfterEvening ==
    /\ last.op = "updatePresence" /\ last.passed /\ ~last.stored /\ last.page = <<>>
    /\ last.tx.createdAt = LocalInstant(0, 510)
    /\ cachedTransaction.createdAt = LocalInstant(0, 1380)
    /\ indexPage[1] = "yes"

\* C15 as claimed: once a failed poll has left latestStatus Untracked, the
\* page GET / serves carries no contradiction notice, and its title is the
\* presence derived from the cached transaction at the time it was built.
C15_NoNoticeWhileUntracked ==
    (last.op = "indexHandler" /\ latestStatus = "Untracked")
        => last.page[2] # ContradictionNotice

\* One GET of the day's state failed: transport error or undecodable body.
PollFailures == {"neterr", "decodeerr"}

\* C16: a poll that fails on the network or on decoding stores Untracked, one
\* outcome per iteration (nothing is retried within it), and leaves the
\* poller running: the next iteration can be taken.
C16_FailedPollStoresUntracked ==
    /\ (last.op = "updateStatus" /\ last.poll \in PollFailures)
          => (latestStatus = "Untracked" /\ ~crashed /\ ENABLED UpdateStatus)
    /\ (last.op = "updateStatus" /\ last.poll \notin PollFailures)
          => latestStatus = last.poll

\* C16 witness: a poll failed on decoding and Untracked is stored, with a
\* purchase in the cache.
C16_DecodeFailureStored ==
    /\ last.op = "updateStatus" /\ last.poll = "decodeerr"
    /\ latestStatus = "Untracked"
    /\ cachedTransaction # ZeroTx

\* C17: the reason text of every page refreshPage builds is the contradiction
\* notice exactly when presence is false and the mirrored status is
\* WorkFromOffice, the summary of the cached transaction (amount, description,
\* Melbourne time of day) exactly when presence is true, whatever the status,
\* and empty in every other case.
C17_ReasonByPresenceAndStatus ==
    [][ RanRefreshPage =>
          LET tx       == cachedTransaction'
              presence == After(tx.createdAt, MidnightOf(now'))
              reason   == last'.page[2]
              local    == (tx.createdAt + MelbourneOffset) % MinutesPerDay
          IN  /\ reason = ContradictionNotice
                    <=> (~presence /\ latestStatus' = "WorkFromOffice")
              /\ reason = <<>>
                    <=> (~presence /\ latestStatus' # "WorkFromOffice")
              /\ presence <=> Len(reason) = 6
              /\ presence =>
                    /\ reason[2] = <<(0 - tx.amount) \div 100, (0 - tx.amount) % 100>>
                    /\ reason[4] = tx.description
                    /\ reason[6][1] = (IF (local \div 60) % 12 = 0 THEN 12
                                       ELSE (local \div 60) % 12)
                    /\ reason[6][2] = local % 60
                    /\ reason[6][3] = (IF local < 12 * 60 THEN "AM" ELSE "PM") ]_vars

\* C17 witness: a page titled "yes" was built while the mirrored status was
\* WorkFromOffice, and its reason is the summary, not the notice.
C17_SummaryWhileInOffice ==
    /\ last.op = "updatePresence" /\ last.stored
    /\ latestStatus = "WorkFromOffice"
    /\ last.page[1] = "yes" /\ Len(last.page[2]) = 6

\* C18 as claimed: GET / and GET /raw answer from the snapshot the process
\* holds; no request to the office-status service is made while a read
\* handler runs.
C18_ReadHandlersPollNothing ==
    last.op \in {"rawHandler", "indexHandler"} => last.poll = ""

\* C19 as claimed: a read endpoint that answers 200 computed its answer from
\* the stored transaction or from the last snapshot it held; when the load
\* fails it answers from that snapshot or with an error status, never from an
\* empty transaction put in its place.
C19_NeverAnswersFromSubstitute ==
    [][ (last'.op \in {"rawHandler", "indexHandler"} /\ last'.code = 200)
          => \/ latestTransaction' = document
             \/ latestTransaction' = latestTransaction ]_vars

\* C20 as claimed: a transaction meeting the other criteria passes exactly
\* when its instant, read in Australia/Melbourne, falls Monday to Friday,
\* whatever UTC offset its createdAt is written with.
C20_WeekdayInMelbourne ==
    ( /\ last.op = "updatePresence"
      /\ last.tx.amount \in -700 .. -400
      /\ ~last.tx.foreign
      /\ last.tx.category = "restaurants-and-cafes" )
    => (last.passed <=> Weekday(last.tx.createdAt, MelbourneOffset) \in 1 .. 5)

\* C21 as claimed: in the rolling-window variant a transaction is handed to
\* store only if its time of day, as written in its timestamp, lies between
\* 6:00am and 12:00pm.
C21_MorningOnly ==
    (last.op = "webhookHandler" /\ last.passed)
        => LET minute == (last.tx.createdAt + last.tx.offset) % MinutesPerDay
           IN  minute >= 6 * 60 /\ minute <= 12 * 60

\* C22 as claimed: processing a transaction event never waits on an outbound
\* call: while an HTTP request sent on behalf of the event is still
\* unanswered, the listener can take the next record.
C22_ListenerNeverWaitsOnHTTP ==
    lpc = "posting" => ENABLED ListenerStore

\* C23 as claimed: a record whose payload the decoder rejects leaves
\* cachedTransaction and indexPage as they were and sends no notification.
C23_UndecodableChangesNothing ==
    [][ (last'.op = "updatePresence" /\ ~last'.decoded)
          => /\ cachedTransaction' = cachedTransaction
             /\ indexPage' = indexPage
             /\ ~last'.fired ]_vars

\* C24 as claimed: in every state the presence string in the page GET /
\* serves is the string GET /raw would answer at the same instant.
C24_PageAgreesWithRaw ==
    started => indexPage[1] = rawResponse

\* C25 as claimed: the PUT of WorkFromOffice is issued only while the
\* office-status service holds Untracked for the day.
C25_PutOnlyOverUntracked ==
    [][ (\E h \in Handlers : hpc[h] = "putting" /\ hpc'[h] = "idle")
          => officeState = "Untracked" ]_vars

\* C26: while latestStatus still holds its initial State(-1), before the first
\* poll has completed, neither the page held nor any page just built carries
\* the contradiction notice, whatever was processed so far.
C26_NoNoticeBeforeFirstPoll ==
    latestStatus = "Unset" =>
        /\ indexPage # <<>> => indexPage[2] # ContradictionNotice
        /\ last.page # <<>> => last.page[2] # ContradictionNotice

\* C26 witness: before the first poll a purchase of an earlier day was stored
\* and the page built for it says "no".
C26_StalePurchaseBeforeFirstPoll ==
    /\ latestStatus = "Unset"
    /\ last.op = "updatePresence" /\ last.stored
    /\ indexPage[1] = "no"

\* The notification POST of the last operation failed.
PostFailed == last.fired /\ last.slack \in {"neterr", "non200"}

\* C27: a failed notification POST leaves indexPage holding the new rendering,
\* and nothing retries it: a refreshPage that builds the page already held
\* calls fireSlack no more, right after a failed POST as at any other time.
C27_FailedPostNotRetried ==
    [][ RanRefreshPage =>
          /\ indexPage' = last'.page
          /\ last'.fired <=> last'.slack # ""
          /\ last'.page = indexPage => ~last'.fired
          /\ (PostFailed /\ last'.page = last.page) => ~last'.fired ]_vars

\* C27 witness: the POST announcing the turn to "yes" failed on the transport
\* and the page held is the new one.
C27_YesPageAfterFailedPost ==
    /\ last.op = "updatePresence" /\ last.fired /\ last.slack = "neterr"
    /\ indexPage = last.page
    /\ indexPage[1] = "yes"

\* C28: main's refreshPage runs once, against the empty page and the empty
\* cache, and so calls fireSlack exactly once with status "no" and an empty
\* description; until it has run no listener, poller, refresher or handler
\* step is taken and nothing else is fired.
C28_OneNotificationAtStartup ==
    [][ /\ last'.op = "main" =>
              /\ ~started /\ started'
              /\ indexPage = <<>> /\ cachedTransaction = ZeroTx
              /\ last'.fired
              /\ last'.page = <<"no", <<>>>>
        /\ ~started => last'.op \in {"main", "tick"}
        /\ started => last'.op # "main" ]_vars

\* C28 witness: main has just run and fired for the page "no" with an empty
\* description.
C28_StartupFired ==
    /\ last.op = "main" /\ last.fired /\ last.slack # ""
    /\ started
    /\ indexPage = <<"no", <<>>>>

===========================================================================
